---------------------------- MODULE Spec2Model ----------------------------
(***************************************************************************)
(* throttle::linmath::matrix<T> (lib/include/matrix.hpp): a contiguous     *)
(* element buffer (m_contiguous_matrix) plus a vector of row pointers      *)
(* (m_rows_vec).  The class declares no copy or move members, so the       *)
(* compiler's memberwise ones are in force: a copy gets a buffer of its    *)
(* own and the source's row POINTERS.  The model keeps a heap of buffers   *)
(* and, per matrix object, the buffer it owns and its row pointers, each a *)
(* pair <<buffer, offset>>.                                                *)
(*                                                                         *)
(* Elements are IEEE-like values in exact arithmetic: <<s, n, d>> stands   *)
(* for s*n/d, with <<s,1,0>> an infinity, <<1,0,0>> NaN and <<s,0,1>> a    *)
(* signed zero.  Rounding is not modelled.                                 *)
(***************************************************************************)
EXTENDS Integers, Sequences, FiniteSets, TLC

\* ------------------------------------------------------------------ bounds
MaxDim == 2
MaxStart == 1
MaxScalar == 2
MaxOps == 2
MaxElem == 2
MaxCells == 4
MaxDeep == 3

\* --------------------------------------------------------- element values
RECURSIVE GCD(_, _)
GCD(a, b) == IF b = 0 THEN a ELSE GCD(b, a % b)

NaN == <<1, 0, 0>>
IsNaN(v) == v[2] = 0 /\ v[3] = 0
IsInf(v) == v[2] # 0 /\ v[3] = 0
IsZero(v) == v[2] = 0 /\ v[3] # 0
IsFinite(v) == v[3] # 0

Norm(s, n, d) ==
  LET g == GCD(n, d)
  IN  IF g = 0 THEN NaN ELSE <<s, n \div g, d \div g>>

Int2Val(k) == IF k < 0 THEN <<-1, -k, 1>> ELSE <<1, k, 1>>

Neg(v) == IF IsNaN(v) THEN NaN ELSE <<-v[1], v[2], v[3]>>

\* std::abs
Abs(v) == <<1, v[2], v[3]>>

\* T operator*(T, T)
Mul(a, b) == Norm(a[1] * b[1], a[2] * b[2], a[3] * b[3])

\* T operator/(T, T): a times the reciprocal of b (x/0 is an infinity, 0/0 NaN)
Div(a, b) == Norm(a[1] * b[1], a[2] * b[3], a[3] * b[2])

\* T operator+(T, T)
Add(a, b) ==
  IF IsNaN(a) \/ IsNaN(b) THEN NaN
  ELSE IF IsInf(a) THEN (IF IsInf(b) /\ b[1] # a[1] THEN NaN ELSE a)
  ELSE IF IsInf(b) THEN b
  ELSE LET num == a[1] * a[2] * b[3] + b[1] * b[2] * a[3]
           den == a[3] * b[3]
       IN  IF num = 0
           THEN <<IF IsZero(a) /\ IsZero(b) /\ a[1] = -1 /\ b[1] = -1 THEN -1 ELSE 1, 0, 1>>
           ELSE IF num < 0 THEN Norm(-1, -num, den) ELSE Norm(1, num, den)

\* T operator-(T, T)
Sub(a, b) == Add(a, Neg(b))

\* std::less<T>: false whenever an operand is NaN
Less(a, b) ==
  IF IsNaN(a) \/ IsNaN(b) THEN FALSE
  ELSE IF IsInf(a) /\ IsInf(b) THEN a[1] < b[1]
  ELSE a[1] * a[2] * b[3] < b[1] * b[2] * a[3]

\* operator== on T: the two zeros compare equal, NaN equals nothing
NumEq(a, b) ==
  /\ ~IsNaN(a) /\ ~IsNaN(b)
  /\ (a = b \/ (IsZero(a) /\ IsZero(b)))


\* ------------------------------------------------------------------- heap
MaxBufs == 10
BufIds == 1..MaxBufs
Names == {"a", "b", "c"}

NoBuf == [live |-> FALSE, rows |-> 0, cols |-> 0, data |-> <<>>]
NoObj == [made |-> FALSE, buf |-> 0, rv |-> <<>>]

\* What freed storage may hold when the allocator has written its own
\* bookkeeping over it.
Scribble == Int2Val(7)

\* operator new: the lowest unused address.
Alloc(h) == CHOOSE b \in BufIds : h[b] = NoBuf /\ \A b2 \in 1..(b - 1) : h[b2] # NoBuf

\* operator delete: the storage is dead; its bytes stay as they were (scr =
\* FALSE) or are overwritten by the allocator (scr = TRUE).
Free(h, b, scr) ==
  [h EXCEPT ![b] = [live |-> FALSE, rows |-> @.rows, cols |-> @.cols,
                    data |-> IF scr THEN [i \in DOMAIN @.data |-> Scribble] ELSE @.data]]

Referenced(o, b) ==
  \E n \in Names : o[n].made /\ \E i \in DOMAIN o[n].rv : o[n].rv[i][1] = b

\* Dead storage no row pointer refers to is unobservable: forget it.
Collect(h, o) ==
  [b \in BufIds |-> IF h[b].live \/ Referenced(o, b) THEN h[b] ELSE NoBuf]

\* ------------------------------------------------- contiguous_matrix<T>
\* contiguous_matrix{rows, cols, start, finish}: row-major fill, missing
\* positions take T{}, excess input is ignored.
cm_from_sequence(r, c, seq) ==
  [k \in 1..(r * c) |-> IF k <= Len(seq) THEN seq[k] ELSE Int2Val(0)]

\* A contiguous_matrix constructed in fresh storage.
cm_new(h, r, c, data) ==
  LET b == Alloc(h)
  IN  [h |-> [h EXCEPT ![b] = [live |-> TRUE, rows |-> r, cols |-> c, data |-> data]],
       buf |-> b]

\* contiguous_matrix::operator*=(T) and operator/=(T): every element of the
\* buffer.
cm_scale(h, b, k) == [h EXCEPT ![b].data = [i \in DOMAIN @ |-> Mul(@[i], k)]]
cm_divide(h, b, k) == [h EXCEPT ![b].data = [i \in DOMAIN @ |-> Div(@[i], k)]]

\* algorithm::multiply_accumulate(a_begin, a_end, b_begin, init)
RECURSIVE multiply_accumulate(_, _, _, _)
multiply_accumulate(as, bs, k, acc) ==
  IF k > Len(as) THEN acc
  ELSE multiply_accumulate(as, bs, k + 1, Add(acc, Mul(as[k], bs[k])))

\* ------------------------------------------------------------ matrix<T>
rows(h, m) == h[m.buf].rows
cols(h, m) == h[m.buf].cols
square(h, m) == cols(h, m) = rows(h, m)

\* m_row[index] for a row pointer p = <<buffer, offset>>
Load(h, p, j) == h[p[1]].data[p[2] + j + 1]
\* the same where the index may run past the row, or past the buffer (g is
\* whatever lies behind the buffer)
LoadAt(h, p, j, g) ==
  IF p[2] + j + 1 \in DOMAIN h[p[1]].data THEN h[p[1]].data[p[2] + j + 1] ELSE g
Store(h, p, j, v) == [h EXCEPT ![p[1]].data[p[2] + j + 1] = v]

\* proxy_row: the cols() elements from the row pointer on
Row(h, m, i) == [j \in 1..cols(h, m) |-> Load(h, m.rv[i + 1], j - 1)]

\* What the caller sees through operator[]: M[i][j] for all i, j.
Logical(h, m) == [i \in 1..Len(m.rv) |-> Row(h, m, i - 1)]

update_rows_vec(b, r, c) == [i \in 1..r |-> <<b, (i - 1) * c>>]

\* matrix(rows, cols, start, finish)
matrix_ctor(h, r, c, seq) ==
  LET n == cm_new(h, r, c, cm_from_sequence(r, c, seq))
  IN  [h |-> n.h, m |-> [made |-> TRUE, buf |-> n.buf, rv |-> update_rows_vec(n.buf, r, c)]]

\* The implicit copy constructor: m_contiguous_matrix is copied into storage
\* of its own, m_rows_vec is copied pointer by pointer.
copy_ctor(h, src) ==
  LET n == cm_new(h, rows(h, src), cols(h, src), h[src.buf].data)
  IN  [h |-> n.h, m |-> [made |-> TRUE, buf |-> n.buf, rv |-> src.rv]]

\* The implicit copy assignment, member by member.
copy_assign(h, dst, src, scr) ==
  LET n == cm_new(h, rows(h, src), cols(h, src), h[src.buf].data)
  IN  [h |-> Free(n.h, dst.buf, scr),
       m |-> [made |-> TRUE, buf |-> n.buf, rv |-> src.rv]]

swap_rows(m, idx1, idx2) ==
  [m EXCEPT !.rv = [@ EXCEPT ![idx1 + 1] = m.rv[idx2 + 1], ![idx2 + 1] = m.rv[idx1 + 1]]]

\* transpose() gone wrong: the elements are taken from the buffer in physical
\* order, past the row-index.
transpose_physical(h, m, scr) ==
  LET r == rows(h, m)
      c == cols(h, m)
      data == [k \in 1..(r * c) |->
                 h[m.buf].data[((k - 1) % r) * c + ((k - 1) \div r) + 1]]
      t == cm_new(h, c, r, data)
  IN  [h |-> Free(t.h, m.buf, scr),
       m |-> [made |-> TRUE, buf |-> t.buf, rv |-> update_rows_vec(t.buf, c, r)]]

\* transposed[j][i] = (*this)[i][j], then *this = std::move(transposed)
transpose(h, m, scr) ==
  LET r == rows(h, m)
      c == cols(h, m)
      data == [k \in 1..(r * c) |->
                 Load(h, m.rv[((k - 1) % r) + 1], (k - 1) \div r)]
      t == cm_new(h, c, r, data)
  IN  [h |-> Free(t.h, m.buf, scr),
       m |-> [made |-> TRUE, buf |-> t.buf, rv |-> update_rows_vec(t.buf, c, r)]]

\* std::transform(row_first.begin(), row_first.end(), row_second.cbegin(),
\* row_first.begin(), f), element by element from column j on; sub selects
\* std::minus, otherwise std::plus.
RECURSIVE transform_row(_, _, _, _, _, _)
transform_row(h, p, q, n, j, sub) ==
  IF j >= n THEN h
  ELSE LET x == Load(h, p, j)
           y == Load(h, q, j)
       IN  transform_row(Store(h, p, j, IF sub THEN Sub(x, y) ELSE Add(x, y)),
                         p, q, n, j + 1, sub)

\* for (i = 0; i < rows(); ++i) of operator+= and operator-=
RECURSIVE transform_rows(_, _, _, _, _)
transform_rows(h, m, other, i, sub) ==
  IF i >= rows(h, m) THEN h
  ELSE transform_rows(transform_row(h, m.rv[i + 1], other.rv[i + 1], cols(h, m), 0, sub),
                      m, other, i + 1, sub)

\* rows() != other.rows() || cols() != other.cols()
mismatched(h, m, other) ==
  rows(h, m) # rows(h, other) \/ cols(h, m) # cols(h, other)

\* matrix::operator+=(const matrix &)
op_add_assign(h, m, other) ==
  IF mismatched(h, m, other) THEN [h |-> h, m |-> m, err |-> TRUE]
  ELSE [h |-> transform_rows(h, m, other, 0, FALSE), m |-> m, err |-> FALSE]

\* matrix::operator-=(const matrix &)
op_sub_assign(h, m, other) ==
  IF mismatched(h, m, other) THEN [h |-> h, m |-> m, err |-> TRUE]
  ELSE [h |-> transform_rows(h, m, other, 0, TRUE), m |-> m, err |-> FALSE]

\* matrix::operator*=(value_type) and operator/=(value_type)
op_scale_assign(h, m, k) == [h |-> cm_scale(h, m.buf, k), m |-> m]
op_div_assign(h, m, k) == [h |-> cm_divide(h, m.buf, k), m |-> m]

\* cols() != rhs.rows()
mul_mismatched(h, m, rhs) == cols(h, m) # rows(h, rhs)

\* matrix::operator*=(const matrix &): res and a transposed copy of rhs are
\* built, res is filled and swapped with *this; the temporaries die.
op_mul_assign(h, m, rhs, scr) ==
  IF mul_mismatched(h, m, rhs) THEN [h |-> h, m |-> m, err |-> TRUE]
  ELSE LET r == rows(h, m)
           c == cols(h, rhs)
           res0 == matrix_ctor(h, r, c, <<>>)
           cp == copy_ctor(res0.h, rhs)
           t == transpose(cp.h, cp.m, FALSE)
           data == [k \in 1..(r * c) |->
                      multiply_accumulate(Row(t.h, m, (k - 1) \div c),
                                          Row(t.h, t.m, (k - 1) % c), 1, Int2Val(0))]
           h1 == [t.h EXCEPT ![res0.m.buf].data = data]
       IN  [h |-> Free(Free(h1, t.m.buf, FALSE), m.buf, scr), m |-> res0.m, err |-> FALSE]

\* The pivot search gone wrong: less-or-equal in place of less, so that a tie
\* moves the result to the later row.
RECURSIVE max_in_col_loop_leq(_, _, _, _, _, _)
max_in_col_loop_leq(h, m, col, row, max_row_idx, g) ==
  IF row >= rows(h, m) THEN max_row_idx
  ELSE max_in_col_loop_leq(h, m, col, row + 1,
         IF ~Less(Abs(LoadAt(h, m.rv[row + 1], col, g)),
                  Abs(LoadAt(h, m.rv[max_row_idx + 1], col, g)))
         THEN row ELSE max_row_idx, g)

\* max_in_col_greater_eq(col, minimum_row) with std::less; row is the loop
\* variable, max_row_idx the running result.
RECURSIVE max_in_col_loop(_, _, _, _, _, _)
max_in_col_loop(h, m, col, row, max_row_idx, g) ==
  IF row >= rows(h, m) THEN max_row_idx
  ELSE max_in_col_loop(h, m, col, row + 1,
         IF Less(Abs(LoadAt(h, m.rv[max_row_idx + 1], col, g)),
                 Abs(LoadAt(h, m.rv[row + 1], col, g)))
         THEN row ELSE max_row_idx, g)

max_in_col_greater_eq(h, m, col, minimum_row, g) ==
  LET max_row_idx == max_in_col_loop(h, m, col, minimum_row, minimum_row, g)
  IN  <<max_row_idx, LoadAt(h, m.rv[max_row_idx + 1], col, g)>>

\* for (col = 0; col < cols; col++) mat[to_elim_row][col] -= coef * mat[i][col]
RECURSIVE eliminate_row(_, _, _, _, _, _)
eliminate_row(h, m, to_elim_row, i, coef, col) ==
  IF col >= cols(h, m) THEN h
  ELSE eliminate_row(
         Store(h, m.rv[to_elim_row + 1], col,
               Sub(Load(h, m.rv[to_elim_row + 1], col),
                   Mul(coef, Load(h, m.rv[i + 1], col)))),
         m, to_elim_row, i, coef, col + 1)

\* for (to_elim_row = 0; to_elim_row < rows; to_elim_row++) if (i != to_elim_row)
RECURSIVE eliminate_rows(_, _, _, _, _, _)
eliminate_rows(h, m, i, pivot_elem, to_elim_row, g) ==
  IF to_elim_row >= rows(h, m) THEN h
  ELSE IF to_elim_row = i THEN eliminate_rows(h, m, i, pivot_elem, to_elim_row + 1, g)
  ELSE LET coef == Div(LoadAt(h, m.rv[to_elim_row + 1], i, g), pivot_elem)
       IN  eliminate_rows(eliminate_row(h, m, to_elim_row, i, coef, 0),
                          m, i, pivot_elem, to_elim_row + 1, g)

\* for (i = 0; i < rows; i++) of gauss_jordan_elimination
RECURSIVE gauss_jordan_loop(_, _, _, _)
gauss_jordan_loop(h, m, i, g) ==
  IF i >= rows(h, m) THEN [h |-> h, m |-> m]
  ELSE LET pivot == max_in_col_greater_eq(h, m, i, i, g)
           m1 == swap_rows(m, i, pivot[1])
       IN  gauss_jordan_loop(eliminate_rows(h, m1, i, pivot[2], 0, g), m1, i + 1, g)

gauss_jordan_elimination(h, m, g) == gauss_jordan_loop(h, m, 0, g)

\* The <<row, column>> pairs max_in_col_greater_eq(col, minimum_row) indexes.
max_in_col_accesses(h, m, col, minimum_row) ==
  {<<minimum_row, col>>} \cup {<<row, col>> : row \in minimum_row..(rows(h, m) - 1)}

\* The <<row, column>> pairs gauss_jordan_elimination indexes.
gauss_jordan_accesses(h, m) ==
  UNION {max_in_col_accesses(h, m, i, i)
           \cup {<<r, i>> : r \in (0..(rows(h, m) - 1)) \ {i}}
           \cup {<<r, col>> : r \in (0..(rows(h, m) - 1)) \ {i}, col \in 0..(cols(h, m) - 1)}
           \cup {<<i, col>> : col \in {c \in 0..(cols(h, m) - 1) : rows(h, m) > 1}}
         : i \in 0..(rows(h, m) - 1)}

\* res *= tmp[i][i] for i = 0 .. rows-1
RECURSIVE diagonal_product(_, _, _, _)
diagonal_product(h, m, i, res) ==
  IF i >= rows(h, m) THEN res
  ELSE diagonal_product(h, m, i + 1, Mul(res, Load(h, m.rv[i + 1], i)))

\* determinant() gone wrong: the shape is tested after the elimination.
determinant_late_check(h, m, g) ==
  LET tmp == copy_ctor(h, m)
      e == gauss_jordan_elimination(tmp.h, tmp.m, g)
  IN  IF ~square(h, m) THEN [h |-> Free(e.h, e.m.buf, FALSE), err |-> TRUE, ret |-> NaN]
      ELSE [h |-> Free(e.h, e.m.buf, FALSE), err |-> FALSE,
            ret |-> diagonal_product(e.h, e.m, 0, Int2Val(1))]

\* determinant() const requires std::is_floating_point_v<value_type>
determinant(h, m, g) ==
  IF ~square(h, m) THEN [h |-> h, err |-> TRUE, ret |-> NaN]
  ELSE LET tmp == copy_ctor(h, m)
           e == gauss_jordan_elimination(tmp.h, tmp.m, g)
       IN  [h |-> Free(e.h, e.m.buf, FALSE), err |-> FALSE,
            ret |-> diagonal_product(e.h, e.m, 0, Int2Val(1))]

\* The free operators: auto res = lhs; res OP= rhs; return res;
op_plus(h, lhs, rhs) ==
  LET res == copy_ctor(h, lhs)
      r == op_add_assign(res.h, res.m, rhs)
  IN  IF r.err THEN [h |-> Free(r.h, res.m.buf, FALSE), m |-> NoObj, err |-> TRUE] ELSE r

op_minus(h, lhs, rhs) ==
  LET res == copy_ctor(h, lhs)
      r == op_sub_assign(res.h, res.m, rhs)
  IN  IF r.err THEN [h |-> Free(r.h, res.m.buf, FALSE), m |-> NoObj, err |-> TRUE] ELSE r

op_times(h, lhs, rhs) ==
  LET res == copy_ctor(h, lhs)
      r == op_mul_assign(res.h, res.m, rhs, FALSE)
  IN  IF r.err THEN [h |-> Free(r.h, res.m.buf, FALSE), m |-> NoObj, err |-> TRUE] ELSE r

op_times_scalar(h, lhs, k) ==
  LET res == copy_ctor(h, lhs) IN op_scale_assign(res.h, res.m, k)

op_div_scalar(h, lhs, k) ==
  LET res == copy_ctor(h, lhs) IN op_div_assign(res.h, res.m, k)

\* transpose(const matrix &)
transpose_of(h, mat) ==
  LET res == copy_ctor(h, mat) IN transpose(res.h, res.m, FALSE)

\* ------------------------------------------------------------------ state
VARIABLES
  heap,   \* address -> buffer (storage of a contiguous_matrix)
  objs,   \* the matrix objects a, b, c of the calling program
  last,   \* the last call: its operands, result and the state it started from
  nops,   \* calls made so far
  limit   \* calls the driving program makes in all

vars == <<heap, objs, last, nops, limit>>

Call(op, tgt, arg, dst, k, err, ret, acc) ==
  [op |-> op, tgt |-> tgt, arg |-> arg, dst |-> dst, k |-> k, err |-> err,
   ret |-> ret, acc |-> acc, h0 |-> heap, o0 |-> objs]

NoCall ==
  [op |-> "init", tgt |-> "", arg |-> "", dst |-> "", k |-> NaN, err |-> FALSE,
   ret |-> NaN, acc |-> {}, h0 |-> <<>>, o0 |-> <<>>]

Done(h1, o1, call) ==
  /\ heap' = Collect(h1, o1)
  /\ objs' = o1
  /\ last' = call
  /\ nops' = nops + 1
  /\ limit' = limit

Made(n) == objs[n].made

\* What may lie behind the end of a buffer.
Behind == {Int2Val(0), Scribble}
Scalars == {Int2Val(-1), Int2Val(MaxScalar)}

\* ---------------------------------------------------------------- inputs
\* The test suite's fill: start, start+1, ... in row-major order.
Iota(start, n) == [k \in 1..n |-> Int2Val(start + k - 1)]

RECURSIVE SeqsOver(_, _)
SeqsOver(S, n) ==
  IF n = 0 THEN {<<>>}
  ELSE {Append(q, x) : q \in SeqsOver(S, n - 1), x \in S}

Elems == {Int2Val(k) : k \in (-1)..MaxElem}
Shapes == {<<r, c>> \in (1..MaxCells) \X (1..MaxCells) : r * c <= MaxCells}

EmptyHeap == [b \in BufIds |-> NoBuf]
NoObjs == [n \in Names |-> NoObj]

\* matrix a(r, c, start, finish); matrix b(r2, c2, start2, finish2);
Init ==
  \E r \in 1..MaxDim, c \in 1..MaxDim, s \in 0..MaxStart,
     r2 \in 1..MaxDim, c2 \in 1..MaxDim, s2 \in 0..MaxStart :
    LET a == matrix_ctor(EmptyHeap, r, c, Iota(s, r * c))
        b == matrix_ctor(a.h, r2, c2, Iota(s2, r2 * c2))
    IN  /\ heap = b.h
        /\ objs = [NoObjs EXCEPT !["a"] = a.m, !["b"] = b.m]
        /\ last = NoCall
        /\ nops = 0
        /\ limit = MaxOps

\* matrix a(r, c, list) over every list of small elements, and the matrix of
\* the determinant scenario [[1,2],[3,4]].
InitElim ==
  \E sh \in Shapes :
    \E q \in SeqsOver(Elems, sh[1] * sh[2]) \cup
             {Iota(1, 4) : x \in {y \in {sh} : y = <<2, 2>>}} :
      LET a == matrix_ctor(EmptyHeap, sh[1], sh[2], q)
      IN  /\ heap = a.h
          /\ objs = [NoObjs EXCEPT !["a"] = a.m]
          /\ last = NoCall
          /\ nops = 0
          /\ limit = MaxOps

\* --------------------------------------------------------------- actions
\* matrix dst = src;
CopyConstruct(dst, src) ==
  /\ nops < limit /\ ~Made(dst) /\ Made(src)
  /\ LET r == copy_ctor(heap, objs[src])
     IN  Done(r.h, [objs EXCEPT ![dst] = r.m],
              Call("copy", src, "", dst, NaN, FALSE, NaN, {}))

\* dst = src;
CopyAssign(dst, src) ==
  /\ nops < limit /\ Made(dst) /\ Made(src) /\ dst # src
  /\ \E scr \in BOOLEAN :
       LET r == copy_assign(heap, objs[dst], objs[src], scr)
       IN  Done(r.h, [objs EXCEPT ![dst] = r.m],
                Call("assign", src, "", dst, NaN, FALSE, NaN, {}))

\* n.swap_rows(i, j);
SwapRows(n) ==
  /\ nops < limit /\ Made(n)
  /\ \E i \in 0..(rows(heap, objs[n]) - 1), j \in 0..(rows(heap, objs[n]) - 1) :
       /\ i < j
       /\ Done(heap, [objs EXCEPT ![n] = swap_rows(objs[n], i, j)],
               Call("swap_rows", n, "", "", NaN, FALSE, <<i, j>>, {}))

\* n.transpose();
Transpose(n) ==
  /\ nops < limit /\ Made(n)
  /\ \E scr \in BOOLEAN :
       LET r == transpose(heap, objs[n], scr)
       IN  Done(r.h, [objs EXCEPT ![n] = r.m],
                Call("transpose", n, "", "", NaN, FALSE, NaN, {}))

\* n *= k;
ScaleAssign(n) ==
  /\ nops < limit /\ Made(n)
  /\ \E k \in Scalars :
       LET r == op_scale_assign(heap, objs[n], k)
       IN  Done(r.h, [objs EXCEPT ![n] = r.m],
                Call("scale", n, "", "", k, FALSE, NaN, {}))

\* n /= k;
DivAssign(n) ==
  /\ nops < limit /\ Made(n)
  /\ \E k \in Scalars :
       LET r == op_div_assign(heap, objs[n], k)
       IN  Done(r.h, [objs EXCEPT ![n] = r.m],
                Call("divide", n, "", "", k, FALSE, NaN, {}))

\* n += m;   (a throw leaves the program running: the caller catches it)
AddAssign(n, m) ==
  /\ nops < limit /\ Made(n) /\ Made(m)
  /\ LET r == op_add_assign(heap, objs[n], objs[m])
     IN  Done(r.h, [objs EXCEPT ![n] = r.m],
              Call("add", n, m, "", NaN, r.err, NaN, {}))

\* n -= m;
SubAssign(n, m) ==
  /\ nops < limit /\ Made(n) /\ Made(m)
  /\ LET r == op_sub_assign(heap, objs[n], objs[m])
     IN  Done(r.h, [objs EXCEPT ![n] = r.m],
              Call("sub", n, m, "", NaN, r.err, NaN, {}))

\* n *= m;
MulAssign(n, m) ==
  /\ nops < limit /\ Made(n) /\ Made(m)
  /\ \E scr \in BOOLEAN :
       LET r == op_mul_assign(heap, objs[n], objs[m], scr)
       IN  Done(r.h, [objs EXCEPT ![n] = r.m],
                Call("mul", n, m, "", NaN, r.err, NaN, {}))

\* matrix dst = l + r;
Plus(dst, l, r) ==
  /\ nops < limit /\ ~Made(dst) /\ Made(l) /\ Made(r)
  /\ LET x == op_plus(heap, objs[l], objs[r])
     IN  Done(x.h, [objs EXCEPT ![dst] = x.m],
              Call("plus", l, r, dst, NaN, x.err, NaN, {}))

\* matrix dst = l - r;
Minus(dst, l, r) ==
  /\ nops < limit /\ ~Made(dst) /\ Made(l) /\ Made(r)
  /\ LET x == op_minus(heap, objs[l], objs[r])
     IN  Done(x.h, [objs EXCEPT ![dst] = x.m],
              Call("minus", l, r, dst, NaN, x.err, NaN, {}))

\* matrix dst = l * r;
Times(dst, l, r) ==
  /\ nops < limit /\ ~Made(dst) /\ Made(l) /\ Made(r)
  /\ LET x == op_times(heap, objs[l], objs[r])
     IN  Done(x.h, [objs EXCEPT ![dst] = x.m],
              Call("times", l, r, dst, NaN, x.err, NaN, {}))

\* matrix dst = l * k;
TimesScalar(dst, l) ==
  /\ nops < limit /\ ~Made(dst) /\ Made(l)
  /\ \E k \in Scalars :
       LET x == op_times_scalar(heap, objs[l], k)
       IN  Done(x.h, [objs EXCEPT ![dst] = x.m],
                Call("times_scalar", l, "", dst, k, FALSE, NaN, {}))

\* matrix dst = l / k;
DivScalar(dst, l) ==
  /\ nops < limit /\ ~Made(dst) /\ Made(l)
  /\ \E k \in Scalars :
       LET x == op_div_scalar(heap, objs[l], k)
       IN  Done(x.h, [objs EXCEPT ![dst] = x.m],
                Call("div_scalar", l, "", dst, k, FALSE, NaN, {}))

\* matrix dst = transpose(m);
TransposeOf(dst, m) ==
  /\ nops < limit /\ ~Made(dst) /\ Made(m)
  /\ LET x == transpose_of(heap, objs[m])
     IN  Done(x.h, [objs EXCEPT ![dst] = x.m],
              Call("transpose_of", m, "", dst, NaN, FALSE, NaN, {}))

\* n.gauss_jordan_elimination();
GaussJordan(n) ==
  /\ nops < limit /\ Made(n)
  /\ \E g \in Behind :
       LET r == gauss_jordan_elimination(heap, objs[n], g)
       IN  Done(r.h, [objs EXCEPT ![n] = r.m],
                Call("gauss_jordan", n, "", "", NaN, FALSE, NaN,
                     gauss_jordan_accesses(heap, objs[n])))

\* n.determinant();
Determinant(n) ==
  /\ nops < limit /\ Made(n)
  /\ \E g \in Behind :
       LET r == determinant(heap, objs[n], g)
       IN  Done(r.h, objs,
                Call("determinant", n, "", "", NaN, r.err, r.ret, {}))

\* n.max_in_col_greater_eq(col, minimum_row);
MaxInCol(n) ==
  /\ nops < limit /\ Made(n)
  /\ \E col \in 0..(cols(heap, objs[n]) - 1), minimum_row \in 0..(rows(heap, objs[n]) - 1) :
       Done(heap, objs,
            Call("max_in_col", n, "", "", NaN, FALSE,
                 <<col, minimum_row, max_in_col_greater_eq(heap, objs[n], col, minimum_row, Scribble)>>,
                 max_in_col_accesses(heap, objs[n], col, minimum_row)))

\* n goes out of scope.
Destroy(n) ==
  /\ nops < limit /\ Made(n)
  /\ \E scr \in BOOLEAN :
       Done(Free(heap, objs[n].buf, scr), [objs EXCEPT ![n] = NoObj],
            Call("destroy", n, "", "", NaN, FALSE, NaN, {}))

Next ==
  \/ \E n \in Names :
       \/ SwapRows(n)
       \/ Transpose(n)
       \/ ScaleAssign(n)
       \/ DivAssign(n)
       \/ GaussJordan(n)
       \/ Determinant(n)
       \/ Destroy(n)
  \/ \E n \in Names, m \in Names :
       \/ CopyConstruct(n, m)
       \/ CopyAssign(n, m)
       \/ AddAssign(n, m)
       \/ SubAssign(n, m)
       \/ MulAssign(n, m)
       \/ TimesScalar(n, m)
       \/ DivScalar(n, m)
       \/ TransposeOf(n, m)
  \/ \E d \in Names, n \in Names, m \in Names :
       \/ Plus(d, n, m)
       \/ Minus(d, n, m)
       \/ Times(d, n, m)

Spec == Init /\ [][Next]_vars

NextElim ==
  \E n \in Names :
    \/ SwapRows(n)
    \/ GaussJordan(n)
    \/ Determinant(n)

SpecElim == InitElim /\ [][NextElim]_vars

NextPivot ==
  \E n \in Names :
    \/ SwapRows(n)
    \/ MaxInCol(n)

SpecPivot == InitElim /\ [][NextPivot]_vars

\* The same two matrices, driven through a longer program of fewer kinds of
\* call.
InitDeep ==
  \E r \in 1..MaxDim, c \in 1..MaxDim, s \in 0..MaxStart,
     r2 \in 1..MaxDim, c2 \in 1..MaxDim, s2 \in 0..MaxStart :
    LET a == matrix_ctor(EmptyHeap, r, c, Iota(s, r * c))
        b == matrix_ctor(a.h, r2, c2, Iota(s2, r2 * c2))
    IN  /\ heap = b.h
        /\ objs = [NoObjs EXCEPT !["a"] = a.m, !["b"] = b.m]
        /\ last = NoCall
        /\ nops = 0
        /\ limit = MaxDeep

NextProd ==
  \/ \E n \in Names : SwapRows(n)
  \/ \E n \in Names, m \in Names :
       \/ CopyConstruct(n, m)
       \/ MulAssign(n, m)
  \/ \E d \in Names, n \in Names, m \in Names : Times(d, n, m)

SpecProd == InitDeep /\ [][NextProd]_vars

NextTranspose ==
  \/ \E n \in Names :
       \/ SwapRows(n)
       \/ Transpose(n)
       \/ Destroy(n)
  \/ \E n \in Names, m \in Names :
       \/ CopyConstruct(n, m)
       \/ TransposeOf(n, m)

SpecTranspose == InitDeep /\ [][NextTranspose]_vars

\* ------------------------------------------------------ claim vocabulary
\* The row-index has rows() entries and they are the row starts of the
\* matrix's own buffer, in some order.
OwnRows(h, m) ==
  /\ Len(m.rv) = rows(h, m)
  /\ {m.rv[i] : i \in DOMAIN m.rv} = {<<m.buf, k * cols(h, m)>> : k \in 0..(rows(h, m) - 1)}

\* Every row pointer refers to storage that has not been released.
LiveRows(h, m) == \A i \in DOMAIN m.rv : h[m.rv[i][1]].live

RefersTo(m, b) == \E i \in DOMAIN m.rv : m.rv[i][1] = b

IntegerValued(L) ==
  \A i \in DOMAIN L : \A j \in DOMAIN L[i] : IsFinite(L[i][j]) /\ L[i][j][3] = 1

\* The operands of the last call as they were when it started, and now.
PreTgt == Logical(last.h0, last.o0[last.tgt])
PreArg == Logical(last.h0, last.o0[last.arg])
NowTgt == Logical(heap, objs[last.tgt])
NowArg == Logical(heap, objs[last.arg])
NowDst == Logical(heap, objs[last.dst])

\* Some made object has its rows out of physical order.
Permuted(h, m) == OwnRows(h, m) /\ m.rv # update_rows_vec(m.buf, rows(h, m), cols(h, m))

\* ----------------------------------------------------------------- C1
\* C1: every matrix's row-index has rows() entries which are a permutation of
\* the row starts of its own buffer, after any sequence of operations.
C1_RowIndexOwnsItsBuffer ==
  \A n \in Names : Made(n) => OwnRows(heap, objs[n])

\* ----------------------------------------------------------------- C3
\* C3: l + r and l - r leave both operands as they were: every logical entry
\* of l and of r reads the same after the call as before it.
C3_PlusMinusLeaveOperands ==
  (last.op \in {"plus", "minus"} /\ ~last.err)
    => (NowTgt = PreTgt /\ NowArg = PreArg)

\* ----------------------------------------------------------------- C4
\* C4: scalar scaling acts on the logical elements: after M *= k each M[i][j]
\* is k times its previous value, after M /= k its previous value divided by
\* k, and M * k has (i,j) entry k * M[i][j].
C4_ScalarActsOnLogicalElements ==
  /\ last.op = "scale" =>
       \A i \in DOMAIN PreTgt : \A j \in DOMAIN PreTgt[i] :
         NowTgt[i][j] = Mul(last.k, PreTgt[i][j])
  /\ last.op = "divide" =>
       \A i \in DOMAIN PreTgt : \A j \in DOMAIN PreTgt[i] :
         NowTgt[i][j] = Div(PreTgt[i][j], last.k)
  /\ last.op = "times_scalar" =>
       \A i \in DOMAIN PreTgt : \A j \in DOMAIN PreTgt[i] :
         NowDst[i][j] = Mul(last.k, PreTgt[i][j])

\* ----------------------------------------------------------------- C5
Shape(h, m) == <<h[m.buf].rows, h[m.buf].cols>>

\* Object n is as it was when the last call started: shape, row order and
\* every element.
Untouched(n) ==
  /\ objs[n] = last.o0[n]
  /\ Shape(heap, objs[n]) = Shape(last.h0, last.o0[n])
  /\ Logical(heap, objs[n]) = Logical(last.h0, last.o0[n])

\* C5: M += N and M -= N on different shapes, M *= N with cols(M) # rows(N)
\* and determinant() on a non-square matrix fail, and leave M (shape, row
\* order, every element) and N exactly as they were.
C5_ShapeErrorsLeaveOperands ==
  /\ (last.op \in {"add", "sub"}
        /\ Shape(last.h0, last.o0[last.tgt]) # Shape(last.h0, last.o0[last.arg]))
       => (last.err /\ Untouched(last.tgt) /\ Untouched(last.arg))
  /\ (last.op = "mul"
        /\ Shape(last.h0, last.o0[last.tgt])[2] # Shape(last.h0, last.o0[last.arg])[1])
       => (last.err /\ Untouched(last.tgt) /\ Untouched(last.arg))
  /\ (last.op = "determinant"
        /\ Shape(last.h0, last.o0[last.tgt])[1] # Shape(last.h0, last.o0[last.tgt])[2])
       => (last.err /\ Untouched(last.tgt))

\* A failed += on a matrix whose rows had been swapped.
C5_Witness ==
  /\ last.op = "add" /\ last.err
  /\ Permuted(last.h0, last.o0[last.tgt])

\* ----------------------------------------------------------------- C6
\* sum over k = 1..n of p[k] * Q[k][j], in index order
RECURSIVE DotColumn(_, _, _, _)
DotColumn(p, Q, j, n) ==
  IF n = 0 THEN Int2Val(0)
  ELSE Add(DotColumn(p, Q, j, n - 1), Mul(p[n], Q[n][j]))

\* M after the call is the product of M and N as they were before it.
IsProduct ==
  /\ Shape(heap, objs[last.tgt]) =
       <<Shape(last.h0, last.o0[last.tgt])[1], Shape(last.h0, last.o0[last.arg])[2]>>
  /\ DOMAIN NowTgt = DOMAIN PreTgt
  /\ \A i \in DOMAIN PreTgt :
       /\ DOMAIN NowTgt[i] = 1..Shape(last.h0, last.o0[last.arg])[2]
       /\ \A j \in DOMAIN NowTgt[i] :
            NowTgt[i][j] = DotColumn(PreTgt[i], PreArg, j, Len(PreArg))

\* M and N are readable (their rows are live storage) and integer-valued.
ProductOperands ==
  /\ last.op = "mul" /\ ~last.err
  /\ LiveRows(last.h0, last.o0[last.tgt]) /\ LiveRows(last.h0, last.o0[last.arg])
  /\ IntegerValued(PreTgt) /\ IntegerValued(PreArg)

\* C6: for integer-valued M and N with cols(M) = rows(N), each in any logical
\* row order, after M *= N the matrix M is rows(M) x cols(N) with (i,j) entry
\* the sum over k of M_old[i][k] * N[k][j] in logical order, and N (an object
\* other than M) is unchanged.
C6_ProductInLogicalOrder ==
  ProductOperands
    => (IsProduct /\ (last.arg # last.tgt => Untouched(last.arg)))

\* The part of C6 that stands: the product is right for all such operands, and
\* N is unchanged whenever its rows are not M's storage.
C6_ProductWhenNotAliased ==
  ProductOperands
    => /\ IsProduct
       /\ (last.arg # last.tgt /\ ~RefersTo(last.o0[last.arg], last.o0[last.tgt].buf))
            => Untouched(last.arg)

\* A product of two 2-row matrices, both with their rows swapped.
C6_Witness ==
  /\ last.op = "mul" /\ ~last.err /\ last.arg # last.tgt
  /\ Permuted(last.h0, last.o0[last.tgt]) /\ Permuted(last.h0, last.o0[last.arg])
  /\ IntegerValued(PreTgt) /\ IntegerValued(PreArg)
  /\ NowTgt # PreTgt

\* ----------------------------------------------------------------- C8
\* Object n holds the transpose of the logical matrix L, rows in physical
\* order.
IsTransposeOf(n, L, r, c) ==
  /\ Shape(heap, objs[n]) = <<c, r>>
  /\ objs[n].rv = [i \in 1..c |-> <<objs[n].buf, (i - 1) * r>>]
  /\ \A i \in 1..r : \A j \in 1..c : Logical(heap, objs[n])[j][i] = L[i][j]

\* C8: for M of shape r x c in any logical row order of live storage,
\* M.transpose() leaves M of shape c x r with (j,i) the previous (i,j) and the
\* row-index in physical order; transpose(M) returns that value and leaves M
\* unchanged.
C8_TransposeLogical ==
  /\ (last.op = "transpose" /\ LiveRows(last.h0, last.o0[last.tgt]))
       => IsTransposeOf(last.tgt, PreTgt, Shape(last.h0, last.o0[last.tgt])[1],
                        Shape(last.h0, last.o0[last.tgt])[2])
  /\ (last.op = "transpose_of" /\ LiveRows(last.h0, last.o0[last.tgt]))
       => /\ IsTransposeOf(last.dst, PreTgt, Shape(last.h0, last.o0[last.tgt])[1],
                           Shape(last.h0, last.o0[last.tgt])[2])
          /\ Untouched(last.tgt)

\* A non-square matrix with swapped rows has been transposed in place.
C8_Witness ==
  /\ last.op = "transpose"
  /\ Permuted(last.h0, last.o0[last.tgt])
  /\ Shape(last.h0, last.o0[last.tgt])[2] > 1
  /\ Shape(heap, objs[last.tgt]) = <<Shape(last.h0, last.o0[last.tgt])[2], 2>>

\* ----------------------------------------------------------------- C2
\* C2: determinant() works on a private copy: every M[i][j] reads the same
\* after the call as before it, and M's row order is unchanged.
C2_DeterminantLeavesMatrix ==
  (last.op = "determinant" /\ ~last.err) => Untouched(last.tgt)

\* ----------------------------------------------------------------- C7
\* L without its first row and its j-th column.
Minor(L, j) ==
  [i \in 1..(Len(L) - 1) |->
     [k \in 1..(Len(L) - 1) |-> L[i + 1][IF k < j THEN k ELSE k + 1]]]

\* The determinant by expansion along the first row.
RECURSIVE MathDet(_)
RECURSIVE MathDetSum(_, _)
MathDetSum(L, j) ==
  IF j = 0 THEN Int2Val(0)
  ELSE LET term == Mul(L[1][j], MathDet(Minor(L, j)))
       IN  Add(MathDetSum(L, j - 1), IF j % 2 = 1 THEN term ELSE Neg(term))
MathDet(L) == IF Len(L) = 1 THEN L[1][1] ELSE MathDetSum(L, Len(L))

AllFinite(L) == \A i \in DOMAIN L : \A j \in DOMAIN L[i] : IsFinite(L[i][j])

\* C7: for every square non-singular M, determinant() returns the
\* mathematical determinant with its sign ([[1,2],[3,4]] gives -2).
C7_DeterminantIsSigned ==
  (/\ last.op = "determinant" /\ ~last.err
   /\ AllFinite(PreTgt) /\ ~IsZero(MathDet(PreTgt)))
    => NumEq(last.ret, MathDet(PreTgt))

\* ----------------------------------------------------------------- C9
\* C9: gauss_jordan_elimination on any shape indexes only rows in [0, rows)
\* and columns in [0, cols).
C9_EliminationStaysInBounds ==
  last.op = "gauss_jordan" =>
    \A p \in last.acc :
      /\ p[1] \in 0..(Shape(last.h0, last.o0[last.tgt])[1] - 1)
      /\ p[2] \in 0..(Shape(last.h0, last.o0[last.tgt])[2] - 1)

\* ---------------------------------------------------------------- C10
\* |a| >= |b| for finite a, b
AbsGeq(a, b) == a[2] * b[3] >= b[2] * a[3]

\* C10: max_in_col_greater_eq(col, start_row) returns (r, v) with
\* start_row <= r < rows, |M[r][col]| >= |M[q][col]| for every q in
\* [start_row, rows), r the smallest such row, v the signed M[r][col]; the
\* matrix is not modified.
C10_PivotIsFirstAbsMax ==
  last.op = "max_in_col" =>
    LET col == last.ret[1]
        start == last.ret[2]
        r == last.ret[3][1]
        v == last.ret[3][2]
        M == PreTgt
        n == Shape(last.h0, last.o0[last.tgt])[1]
    IN  /\ start <= r /\ r < n
        /\ \A q \in start..(n - 1) : AbsGeq(M[r + 1][col + 1], M[q + 1][col + 1])
        /\ \A q \in start..(r - 1) : ~AbsGeq(M[q + 1][col + 1], M[r + 1][col + 1])
        /\ v = M[r + 1][col + 1]
        /\ Untouched(last.tgt) /\ heap = last.h0

\* A search from row 0 over three rows where the largest absolute value
\* occurs twice, with opposite signs, and not in the first row.
C10_Witness ==
  /\ last.op = "max_in_col" /\ last.ret[2] = 0
  /\ Shape(heap, objs[last.tgt])[1] = 3
  /\ last.ret[3][1] = 1
  /\ last.ret[3][2] = Int2Val(-1)
  /\ NowTgt[3][last.ret[1] + 1] = Int2Val(1)

=============================================================================
